---- MODULE Spec2Model ----
(***************************************************************************)
(* pretty-git-status: a model of src/main.rs.                              *)
(*                                                                         *)
(* The system is one on-disk repository (HEAD, the branch's upstream       *)
(* configuration, the remote-tracking ref, the FETCH_HEAD marker, the      *)
(* status report, the stash reflog), a wall clock, and a bounded number of *)
(* invocations of the program, each of which walks through main().         *)
(* Text is a sequence of one-character strings; an ANSI styling code is a  *)
(* single token of the sequence.  A byte sequence that is not valid UTF-8  *)
(* is text that holds the token BadByte.                                   *)
(***************************************************************************)
EXTENDS Integers, Sequences, FiniteSets, TLC

VARIABLES
    repo,      \* the on-disk repository, shared by every invocation
    now,       \* the wall clock, in seconds
    pc,        \* pc[p]: where invocation p stands in main()
    loc,       \* loc[p]: the local variables of invocation p
    stdout,    \* stdout[p]: the writes invocation p made to standard output
    fetchLog,  \* the calls of remote.fetch and its successful returns, in order
    budget     \* how many invocations the environment launches

vars == <<repo, now, pc, loc, stdout, fetchLog, budget>>

---------------------------------------------------------------------------
(* Bounds of the model *)

NumProcs == 2
MaxNow == 1800
MaxCommit == 5
MaxEntries == 2
MaxStash == 2

Procs == 1..NumProcs

---------------------------------------------------------------------------
(* Option values *)

None == [ok |-> FALSE]
Some(x) == [ok |-> TRUE, v |-> x]

---------------------------------------------------------------------------
(* Text *)

BadByte == "\\xE9"

IsUtf8(s) == \A i \in 1..Len(s) : s[i] # BadByte

\* &str views of byte buffers: None when the bytes are not valid UTF-8
AsStr(s) == IF IsUtf8(s) THEN Some(s) ELSE None

Whitespace == {" ", "\t", "\n", "\r"}

RECURSIVE TrimStart(_)
TrimStart(s) ==
    IF s # <<>> /\ Head(s) \in Whitespace THEN TrimStart(Tail(s)) ELSE s

RECURSIVE TrimEnd(_)
TrimEnd(s) ==
    IF s # <<>> /\ s[Len(s)] \in Whitespace
    THEN TrimEnd(SubSeq(s, 1, Len(s) - 1))
    ELSE s

\* str::trim
Trim(s) == TrimEnd(TrimStart(s))

\* position of the first occurrence of character c in s, 0 when there is none
RECURSIVE IndexOf(_, _, _)
IndexOf(s, c, i) ==
    IF i > Len(s) THEN 0
    ELSE IF s[i] = c THEN i
    ELSE IndexOf(s, c, i + 1)

\* str::lines().next(): None for the empty string, else the text before the
\* first line feed, without a carriage return that ends it
FirstLine(s) ==
    IF s = <<>> THEN None
    ELSE LET n == IndexOf(s, "\n", 1)
             l == IF n = 0 THEN s ELSE SubSeq(s, 1, n - 1)
         IN  IF l # <<>> /\ l[Len(l)] = "\r"
             THEN Some(SubSeq(l, 1, Len(l) - 1))
             ELSE Some(l)

\* str::split(c).last(): the text after the last c, the whole text without one
RECURSIVE SplitLast(_, _)
SplitLast(s, c) ==
    LET n == IndexOf(s, c, 1)
    IN  IF n = 0 THEN s ELSE SplitLast(SubSeq(s, n + 1, Len(s)), c)

\* String::truncate(n)
Truncate(s, n) == IF Len(s) <= n THEN s ELSE SubSeq(s, 1, n)

Digits == <<"0", "1", "2", "3", "4", "5", "6", "7", "8", "9">>

\* format!("{}", n) of an unsigned number
RECURSIVE Decimal(_)
Decimal(n) ==
    IF n < 10 THEN <<Digits[n + 1]>>
    ELSE Decimal(n \div 10) \o <<Digits[(n % 10) + 1]>>

---------------------------------------------------------------------------
(* Styling (colored_truecolor): a styled text is the text between the      *)
(* style's escape code and the reset code                                  *)

SgrReset == "ESC[0m"
SgrBoldMagenta == "ESC[1;35m"
SgrCyan == "ESC[36m"
SgrBrightMagenta == "ESC[95m"
SgrRed == "ESC[31m"
SgrYellow == "ESC[33m"

StyleCodes ==
    {SgrReset, SgrBoldMagenta, SgrCyan, SgrBrightMagenta, SgrRed, SgrYellow}

Styled(code, s) == <<code>> \o s \o <<SgrReset>>

---------------------------------------------------------------------------
(* The commit graph (git2: Oid, Repository::graph_ahead_behind).  Two      *)
(* lines of history fork at the root commit 1: 1 <- 3 <- 5 ... and         *)
(* 1 <- 2 <- 4 ...; MissingOid names an object the database does not hold. *)

Commits == 1..MaxCommit
MissingOid == 0

Parents(c) == IF c <= 1 THEN {} ELSE IF c = 2 THEN {1} ELSE {c - 2}

RECURSIVE Reach(_)
Reach(c) == {c} \cup UNION {Reach(q) : q \in Parents(c)}

\* Repository::graph_ahead_behind(local, upstream)
graph_ahead_behind(local, upstream) ==
    IF local \in Commits /\ upstream \in Commits
    THEN Some(<<Cardinality(Reach(local) \ Reach(upstream)),
                Cardinality(Reach(upstream) \ Reach(local))>>)
    ELSE None

HexDigits ==
    <<"0", "1", "2", "3", "4", "5", "6", "7",
      "8", "9", "a", "b", "c", "d", "e", "f">>

OidHexLen == 40

\* Oid::to_string(): the 40 hexadecimal digits of the object id
OidHex(c) == [i \in 1..OidHexLen |-> HexDigits[((c * (i + 6) + i) % 16) + 1]]

---------------------------------------------------------------------------
(* The repository as the git2 calls of main.rs see it                      *)

T_main == <<"m", "a", "i", "n">>
T_featx == <<"f", "e", "a", "t", "/", "x">>
T_cafe == <<"c", "a", "f", BadByte>>
T_origin == <<"o", "r", "i", "g", "i", "n">>
T_heads == <<"r", "e", "f", "s", "/", "h", "e", "a", "d", "s", "/">>
T_remotes == <<"r", "e", "f", "s", "/", "r", "e", "m", "o", "t", "e", "s", "/">>
T_ref == <<"r", "e", "f", ":", " ">>
T_unknown == <<"<", "u", "n", "k", "n", "o", "w", "n", ">">>
T_MERGING == <<"M", "E", "R", "G", "I", "N", "G">>
T_REBASING == <<"R", "E", "B", "A", "S", "I", "N", "G">>

\* Repository::head(): the resolved reference, or the error
RepoHead(r) ==
    IF r.head.kind \in {"branch", "detached"} THEN [ok |-> TRUE, v |-> r.head]
    ELSE IF r.head.kind = "unborn" THEN [ok |-> FALSE, code |-> "UnbornBranch"]
    ELSE [ok |-> FALSE, code |-> "NotFound"]

\* Reference::is_branch
is_branch(head) == head.kind = "branch"

\* Reference::name: the full name, when it is valid UTF-8
RefName(head) ==
    AsStr(IF head.kind = "branch" THEN T_heads \o head.short
          ELSE <<"H", "E", "A", "D">>)

\* Reference::shorthand
Shorthand(head) ==
    AsStr(IF head.kind = "branch" THEN head.short ELSE <<"H", "E", "A", "D">>)

\* Reference::target of the resolved HEAD
HeadTarget(head) == Some(head.oid)

\* Repository::branch_upstream_remote
branch_upstream_remote(r) == r.up.remote

\* Repository::find_remote
find_remote_ok(r) == r.up.defined

\* Repository::branch_upstream_name
branch_upstream_name(r) == r.up.name

\* Branch::upstream: the remote-tracking reference, when it is configured
\* and exists
BranchUpstream(r) ==
    IF r.up.name.ok /\ r.up.ref # "missing"
    THEN Some([target |-> IF r.up.ref = "direct" THEN Some(r.upTip) ELSE None])
    ELSE None

\* fs::read_to_string of the repository's HEAD file
ReadHeadFile(r) ==
    IF r.head.file.ok /\ IsUtf8(r.head.file.v) THEN Some(r.head.file.v) ELSE None

---------------------------------------------------------------------------
(* The functions of main.rs                                                *)

fifteen_minutes == 60 * 15

\* fs::metadata(FETCH_HEAD), metadata.modified() and SystemTime::elapsed():
\* "absent" when the file cannot be stat'ed, "error" when its modification
\* time cannot be read or lies in the future, else the file's age in seconds
Elapsed(marker, t) ==
    IF marker.kind = "absent" THEN [kind |-> "absent", secs |-> 0]
    ELSE IF marker.kind = "nomtime" \/ marker.mtime > t
    THEN [kind |-> "error", secs |-> 0]
    ELSE [kind |-> "age", secs |-> t - marker.mtime]

\* The throttle test with the age limit exclusive (elapsed <= fifteen_minutes)
MarkerAllowsFetchInclusive(marker, t) ==
    LET e == Elapsed(marker, t)
    IN  CASE e.kind = "absent" -> TRUE
          [] e.kind = "error" -> FALSE
          [] OTHER -> ~(e.secs <= fifteen_minutes)

\* The throttle test with the comparison turned round
MarkerAllowsFetchInverted(marker, t) ==
    LET e == Elapsed(marker, t)
    IN  CASE e.kind = "absent" -> TRUE
          [] e.kind = "error" -> FALSE
          [] OTHER -> e.secs < fifteen_minutes

\* The throttle test: TRUE when try_fetch_current_branch goes on past the
\* marker check
MarkerAllowsFetch(marker, t) ==
    LET e == Elapsed(marker, t)
    IN  CASE e.kind = "absent" -> TRUE
          [] e.kind = "error" -> FALSE
          [] OTHER -> ~(e.secs < fifteen_minutes)

\* try_fetch_current_branch up to the call of remote.fetch: None when the
\* function returns early, else the one refspec it fetches
FetchRequest(r, t) ==
    LET head == RepoHead(r)
    IN  IF ~head.ok THEN None
        ELSE IF ~is_branch(head.v) THEN None
        ELSE IF ~MarkerAllowsFetch(r.marker, t) THEN None
        ELSE IF ~RefName(head.v).ok THEN None
        ELSE IF ~branch_upstream_remote(r).ok THEN None
        ELSE IF ~AsStr(branch_upstream_remote(r).v).ok THEN None
        ELSE IF ~find_remote_ok(r) THEN None
        ELSE IF ~branch_upstream_name(r).ok THEN None
        ELSE IF ~AsStr(branch_upstream_name(r).v).ok THEN None
        ELSE Some(SplitLast(branch_upstream_name(r).v, "/"))

\* The unborn-branch fallback without the trim
UnbornHeadNameUntrimmed(r) ==
    LET text == ReadHeadFile(r)
    IN  IF ~text.ok THEN None
        ELSE IF ~FirstLine(text.v).ok THEN None
        ELSE Some(SplitLast(FirstLine(text.v).v, "/"))

\* The unborn-branch fallback of get_head_name: the last path segment of the
\* trimmed first line of the HEAD file
UnbornHeadName(r) ==
    LET text == ReadHeadFile(r)
    IN  IF ~text.ok THEN None
        ELSE IF ~FirstLine(text.v).ok THEN None
        ELSE Some(SplitLast(Trim(FirstLine(text.v).v), "/"))

ShaLen == 7

get_head_name(r) ==
    LET head == RepoHead(r)
    IN  IF ~head.ok
        THEN IF head.code = "UnbornBranch" THEN UnbornHeadName(r) ELSE None
        ELSE IF is_branch(head.v) THEN Shorthand(head.v)
        ELSE IF ~HeadTarget(head.v).ok THEN None
        ELSE Some(<<":">> \o Truncate(OidHex(HeadTarget(head.v).v), ShaLen))

\* The suffix with RebaseMerge taken for a rebase
repo_stateRebaseMerge(state) ==
    CASE state \in {"Merge"} -> Some(T_MERGING)
      [] state \in {"Rebase", "RebaseInteractive", "RebaseMerge"} -> Some(T_REBASING)
      [] OTHER -> None

\* main, lines 24-28: the suffix of the repository state
repo_state(state) ==
    CASE state \in {"Merge", "RebaseMerge"} -> Some(T_MERGING)
      [] state \in {"Rebase", "RebaseInteractive"} -> Some(T_REBASING)
      [] OTHER -> None

\* main, line 23: get_head_name(&repo).unwrap_or("<unknown>")
head_name(r) == IF get_head_name(r).ok THEN get_head_name(r).v ELSE T_unknown

\* main, lines 30-33
head_label(name, state) ==
    IF repo_state(state).ok
    THEN name \o <<"|">> \o repo_state(state).v
    ELSE name

\* get_head_info taking every HEAD that is not a branch for a local-only one
get_head_infoDetachedLocal(r) ==
    LET head == RepoHead(r)
        info(l, a, b) == [is_local_only |-> l, ahead |-> a, behind |-> b]
    IN  IF ~head.ok THEN info(FALSE, 0, 0)
        ELSE IF ~is_branch(head.v) THEN info(TRUE, 0, 0)
        ELSE IF ~BranchUpstream(r).ok THEN info(TRUE, 0, 0)
        ELSE IF ~HeadTarget(head.v).ok THEN info(FALSE, 0, 0)
        ELSE IF ~BranchUpstream(r).v.target.ok THEN info(FALSE, 0, 0)
        ELSE LET d == graph_ahead_behind(HeadTarget(head.v).v,
                                         BranchUpstream(r).v.target.v)
             IN  IF d.ok THEN info(FALSE, d.v[1], d.v[2]) ELSE info(FALSE, 0, 0)

\* get_head_info: (is_local_only_branch, ahead, behind)
get_head_info(r) ==
    LET head == RepoHead(r)
        info(l, a, b) == [is_local_only |-> l, ahead |-> a, behind |-> b]
    IN  IF ~head.ok THEN info(FALSE, 0, 0)
        ELSE IF ~is_branch(head.v) THEN info(FALSE, 0, 0)
        ELSE IF ~BranchUpstream(r).ok THEN info(TRUE, 0, 0)
        ELSE IF ~HeadTarget(head.v).ok THEN info(FALSE, 0, 0)
        ELSE IF ~BranchUpstream(r).v.target.ok THEN info(FALSE, 0, 0)
        ELSE LET d == graph_ahead_behind(HeadTarget(head.v).v,
                                         BranchUpstream(r).v.target.v)
             IN  IF d.ok THEN info(FALSE, d.v[1], d.v[2]) ELSE info(FALSE, 0, 0)

\* git2::Status: a bitmask, here the set of its flags
StatusFlags ==
    {"INDEX_NEW", "INDEX_MODIFIED", "INDEX_DELETED", "INDEX_RENAMED",
     "INDEX_TYPECHANGE", "WT_NEW", "WT_MODIFIED", "WT_DELETED",
     "WT_TYPECHANGE", "WT_RENAMED", "IGNORED", "CONFLICTED"}

\* Status::contains in the place of Status::intersects
contains(status, mask) == mask \subseteq status

\* Status::intersects
intersects(status, mask) == status \cap mask # {}

RECURSIVE count_by_status(_, _)
count_by_status(statuses, status) ==
    IF statuses = <<>> THEN 0
    ELSE (IF intersects(Head(statuses), status) THEN 1 ELSE 0)
         + count_by_status(Tail(statuses), status)

UntrackedMask == {"WT_NEW"}
ChangedMask == {"WT_DELETED", "WT_MODIFIED", "WT_RENAMED", "WT_TYPECHANGE"}
StagedMask == {"INDEX_MODIFIED", "INDEX_NEW", "INDEX_RENAMED", "INDEX_TYPECHANGE"}
ConflictedMask == {"CONFLICTED"}

\* main, lines 37-52
Totals(statuses) ==
    [untracked |-> count_by_status(statuses, UntrackedMask),
     changed |-> count_by_status(statuses, ChangedMask),
     staged |-> count_by_status(statuses, StagedMask),
     conflicted |-> count_by_status(statuses, ConflictedMask)]

\* count_stash giving 0 whenever the enumeration failed
count_stashZeroOnError(run) == IF ~run.opened \/ run.err THEN 0 ELSE run.visited

\* count_stash, given what the re-open and the enumeration did: the counter
\* holds one per callback made, whatever stash_foreach returned
count_stash(run) == IF ~run.opened THEN 0 ELSE run.visited

\* The glyphs of the status line, each one character of the output, named by
\* its code point
GlyphLocalOnly == "U+2B28"
GlyphAhead == "U+2191"
GlyphBehind == "U+2193"
GlyphChanged == "U+0394"
GlyphStaged == "U+25CF"
GlyphConflicted == "U+2716"
GlyphStash == "U+2691"

\* The divergence with the arrows the other way round
DivergenceSegmentSwapped(info) ==
    IF info.is_local_only THEN <<" ", GlyphLocalOnly>>
    ELSE IF info.ahead > 0 \/ info.behind > 0
    THEN <<" ">>
         \o (IF info.behind > 0 THEN <<GlyphBehind>> \o Decimal(info.behind) ELSE <<>>)
         \o (IF info.ahead > 0 THEN <<GlyphAhead>> \o Decimal(info.ahead) ELSE <<>>)
    ELSE <<>>

\* main, lines 60-72: the divergence
DivergenceSegment(info) ==
    IF info.is_local_only THEN <<" ", GlyphLocalOnly>>
    ELSE IF info.ahead > 0 \/ info.behind > 0
    THEN <<" ">>
         \o (IF info.ahead > 0 THEN <<GlyphAhead>> \o Decimal(info.ahead) ELSE <<>>)
         \o (IF info.behind > 0 THEN <<GlyphBehind>> \o Decimal(info.behind) ELSE <<>>)
    ELSE <<>>

\* main, lines 74-104: the counts
CountsSegment(totals) ==
    IF totals.untracked > 0 \/ totals.changed > 0
       \/ totals.staged > 0 \/ totals.conflicted > 0
    THEN <<" ", "(">>
         \o (IF totals.untracked > 0
             THEN Styled(SgrCyan, <<"+">> \o Decimal(totals.untracked))
             ELSE <<>>)
         \o (IF totals.changed > 0
             THEN Styled(SgrBrightMagenta, <<GlyphChanged>> \o Decimal(totals.changed))
             ELSE <<>>)
         \o (IF totals.staged > 0
             THEN Styled(SgrRed, <<GlyphStaged>> \o Decimal(totals.staged))
             ELSE <<>>)
         \o (IF totals.conflicted > 0
             THEN Styled(SgrYellow, <<GlyphConflicted>> \o Decimal(totals.conflicted))
             ELSE <<>>)
         \o <<")">>
    ELSE <<>>

\* main, lines 106-108: the stashes
StashSegment(total_stashed) ==
    IF total_stashed > 0 THEN <<" ", GlyphStash>> \o Decimal(total_stashed) ELSE <<>>

\* main, lines 56-110: the line written to standard output
git_status(label, info, totals, total_stashed) ==
    <<" ", "o", "n", " ">> \o Styled(SgrBoldMagenta, label)
    \o DivergenceSegment(info)
    \o CountsSegment(totals)
    \o StashSegment(total_stashed)

---------------------------------------------------------------------------
(* What the calls into the provider and the file system may do             *)

\* FETCH_HEAD after the provider wrote it at time t
Touch(marker, t) ==
    IF marker.kind = "nomtime" THEN marker ELSE [kind |-> "mtime", mtime |-> t]

\* The repository after remote.fetch returned: a fetch that succeeded wrote
\* FETCH_HEAD and moved the remote-tracking ref to the remote's tip; one
\* that failed left the refs alone and FETCH_HEAD written or not
AfterFetch(r, t, result, wrote) ==
    IF result = "ok"
    THEN [r EXCEPT !.marker = Touch(@, t),
                   !.up.ref = IF @ = "missing" THEN "direct" ELSE @,
                   !.upTip = IF r.up.ref = "symbolic" THEN @ ELSE r.remoteTip]
    ELSE IF wrote THEN [r EXCEPT !.marker = Touch(@, t)]
    ELSE r

\* What count_stash's re-open and stash_foreach can do on repository r: the
\* re-open fails; the enumeration visits every entry; or it fails, before
\* the first entry or after some of them
StashRuns(r) ==
    {[opened |-> FALSE, visited |-> 0, err |-> TRUE],
     [opened |-> TRUE, visited |-> r.stashes, err |-> FALSE]}
    \cup {[opened |-> TRUE, visited |-> k, err |-> TRUE] : k \in 0..(r.stashes - 1)}
    \cup {[opened |-> TRUE, visited |-> 0, err |-> TRUE]}

---------------------------------------------------------------------------
(* The invocations                                                         *)

NoInfo == [is_local_only |-> FALSE, ahead |-> 0, behind |-> 0]
NoTotals == [untracked |-> 0, changed |-> 0, staged |-> 0, conflicted |-> 0]
NoRun == [opened |-> FALSE, visited |-> 0, err |-> FALSE]

InitLoc ==
    [opened |-> "unset",
     fetch_head |-> [kind |-> "absent", mtime |-> 0],
     checked_at |-> 0,
     fetch_step |-> "pending",
     statuses_read |-> "unset",
     statuses |-> <<>>,
     head_name |-> <<>>,
     head_label |-> <<>>,
     info |-> NoInfo,
     totals |-> NoTotals,
     stash_run |-> NoRun,
     total_stashed |-> 0]

\* The clock's step, and the grain of the marker's initial modification times
TickSecs == fifteen_minutes
HalfTick == fifteen_minutes \div 2

\* main going on without a repository
PcAfterOpenFallsThrough(opened) == "try_fetch"

\* main, lines 11-14: without a repository main returns
PcAfterOpen(opened) == IF opened = "ok" THEN "try_fetch" ELSE "done"

\* main returning when the fetch failed (try_fetch_current_branch(&repo)?)
PcAfterFetchStops(step) == IF step = "failed" THEN "done" ELSE "statuses"

\* main, line 16: the value try_fetch_current_branch returns is dropped and
\* main goes on to read the statuses
PcAfterFetch(step) == "statuses"

\* main, lines 18-21: without the status report main returns
PcAfterStatuses(read) == IF read = "ok" THEN "report" ELSE "done"

\* main, lines 11-14: the environment launches invocation p, which opens the
\* repository or returns
Start(p) ==
    /\ pc[p] = "idle"
    /\ \A q \in Procs : q < p => pc[q] # "idle"
    /\ Cardinality({q \in Procs : pc[q] # "idle"}) < budget
    /\ \E opened \in {"ok", "err"} :
           /\ loc' = [loc EXCEPT ![p].opened = opened]
           /\ pc' = [pc EXCEPT ![p] = PcAfterOpen(opened)]
    /\ UNCHANGED <<repo, now, stdout, fetchLog, budget>>

\* try_fetch_current_branch, lines 113-159: the checks, up to the call of
\* remote.fetch
TryFetch(p) ==
    /\ pc[p] = "try_fetch"
    /\ LET req == FetchRequest(repo, now)
       IN  /\ loc' = [loc EXCEPT ![p].fetch_head = repo.marker,
                                 ![p].checked_at = now,
                                 ![p].fetch_step =
                                     IF req.ok THEN "calling" ELSE "skipped"]
           /\ pc' = [pc EXCEPT ![p] =
                        IF req.ok THEN "fetch" ELSE PcAfterFetch("skipped")]
           /\ fetchLog' =
                 IF req.ok
                 THEN Append(fetchLog, [ev |-> "call", at |-> now])
                 ELSE fetchLog
    /\ UNCHANGED <<repo, now, stdout, budget>>

\* try_fetch_current_branch, lines 160-162: remote.fetch returns
FetchReturn(p) ==
    /\ pc[p] = "fetch"
    /\ \E result \in {"ok", "failed"}, wrote \in BOOLEAN :
           /\ result = "ok" => wrote
           /\ repo' = AfterFetch(repo, now, result, wrote)
           /\ loc' = [loc EXCEPT ![p].fetch_step = result]
           /\ pc' = [pc EXCEPT ![p] = PcAfterFetch(result)]
           /\ fetchLog' =
                 IF result = "ok"
                 THEN Append(fetchLog, [ev |-> "ok", at |-> now])
                 ELSE fetchLog
    /\ UNCHANGED <<now, stdout, budget>>

\* main, lines 18-21: the status report is read, or main returns
ReadStatuses(p) ==
    /\ pc[p] = "statuses"
    /\ \E read \in {"ok", "err"} :
           /\ loc' = [loc EXCEPT ![p].statuses_read = read,
                                 ![p].statuses =
                                     IF read = "ok" THEN repo.statuses ELSE <<>>]
           /\ pc' = [pc EXCEPT ![p] = PcAfterStatuses(read)]
    /\ UNCHANGED <<repo, now, stdout, fetchLog, budget>>

\* main, lines 23-110: the label, the divergence, the counts and the stash
\* count are gathered and the line is written
Report(p) ==
    /\ pc[p] = "report"
    /\ \E run \in StashRuns(repo) :
           LET name == head_name(repo)
               label == head_label(name, repo.state)
               info == get_head_info(repo)
               totals == Totals(loc[p].statuses)
               total_stashed == count_stash(run)
           IN  /\ loc' = [loc EXCEPT ![p].head_name = name,
                                     ![p].head_label = label,
                                     ![p].info = info,
                                     ![p].totals = totals,
                                     ![p].stash_run = run,
                                     ![p].total_stashed = total_stashed]
               /\ stdout' = [stdout EXCEPT ![p] =
                     Append(@, git_status(label, info, totals, total_stashed))]
    /\ pc' = [pc EXCEPT ![p] = "written"]
    /\ UNCHANGED <<repo, now, fetchLog, budget>>

\* main, line 111: main returns and the process ends; what it wrote stays,
\* and how its steps went
Exit(p) ==
    /\ pc[p] = "written"
    /\ pc' = [pc EXCEPT ![p] = "done"]
    /\ loc' = [loc EXCEPT ![p] = [InitLoc EXCEPT !.opened = loc[p].opened,
                                                 !.fetch_step = loc[p].fetch_step,
                                                 !.statuses_read = loc[p].statuses_read]]
    /\ UNCHANGED <<repo, now, stdout, fetchLog, budget>>

\* Time passes
Tick ==
    /\ now + TickSecs <= MaxNow
    /\ now' = now + TickSecs
    /\ UNCHANGED <<repo, pc, loc, stdout, fetchLog, budget>>

Next ==
    \/ \E p \in Procs : Start(p)
    \/ \E p \in Procs : TryFetch(p)
    \/ \E p \in Procs : FetchReturn(p)
    \/ \E p \in Procs : ReadStatuses(p)
    \/ \E p \in Procs : Report(p)
    \/ \E p \in Procs : Exit(p)
    \/ Tick

---------------------------------------------------------------------------
(* Repositories                                                            *)

HBranch(short, oid) ==
    [kind |-> "branch", short |-> short, oid |-> oid,
     file |-> Some(T_ref \o T_heads \o short \o <<"\n">>)]

HDetached(oid) ==
    [kind |-> "detached", short |-> <<>>, oid |-> oid,
     file |-> Some(OidHex(oid) \o <<"\n">>)]

HUnborn(file) ==
    [kind |-> "unborn", short |-> <<>>, oid |-> MissingOid, file |-> file]

HError ==
    [kind |-> "error", short |-> <<>>, oid |-> MissingOid, file |-> None]

\* The HEAD file of a repository whose branch has no commit yet: with and
\* without the line feed, with blanks or a carriage return before it, naming
\* a nested branch, naming a branch whose name is not UTF-8, unreadable
UnbornFiles ==
    {Some(T_ref \o T_heads \o T_main \o <<"\n">>),
     Some(T_ref \o T_heads \o T_main),
     Some(T_ref \o T_heads \o T_main \o <<" ", "\n">>),
     Some(T_ref \o T_heads \o T_main \o <<"\r", "\n">>),
     Some(T_ref \o T_heads \o T_featx \o <<"\n">>),
     Some(T_ref \o T_heads \o T_cafe \o <<"\n">>),
     None}

\* branch.<name>.remote / branch.<name>.merge and the remote-tracking ref
UpNone ==
    [remote |-> None, defined |-> FALSE, name |-> None, ref |-> "missing"]
UpOk ==
    [remote |-> Some(T_origin), defined |-> TRUE,
     name |-> Some(T_remotes \o T_origin \o <<"/">> \o T_main), ref |-> "direct"]
\* configured, never fetched: the remote-tracking ref does not exist yet
UpNoRef == [UpOk EXCEPT !.ref = "missing"]
\* the remote-tracking ref is a symbolic reference
UpSymbolic == [UpOk EXCEPT !.ref = "symbolic"]
\* the upstream is a branch of this repository (remote ".")
UpLocal ==
    [remote |-> Some(<<".">>), defined |-> FALSE,
     name |-> Some(T_heads \o <<"d", "e", "v">>), ref |-> "direct"]
\* the branch names a remote that is not defined
UpGone ==
    [remote |-> Some(<<"g", "o", "n", "e">>), defined |-> FALSE,
     name |-> None, ref |-> "missing"]
\* the remote's name is not UTF-8
UpBadRemote ==
    [remote |-> Some(<<"o", BadByte>>), defined |-> TRUE,
     name |-> Some(T_remotes \o <<"o", BadByte, "/">> \o T_main),
     ref |-> "direct"]
\* the upstream branch's name is not UTF-8
UpBadName ==
    [remote |-> Some(T_origin), defined |-> TRUE,
     name |-> Some(T_remotes \o T_origin \o <<"/">> \o T_cafe), ref |-> "direct"]

Upstreams ==
    {UpNone, UpOk, UpNoRef, UpSymbolic, UpLocal, UpGone, UpBadRemote, UpBadName}

RepositoryStates ==
    {"Clean", "Merge", "Revert", "RevertSequence", "CherryPick",
     "CherryPickSequence", "Bisect", "Rebase", "RebaseInteractive",
     "RebaseMerge", "ApplyMailbox", "ApplyMailboxOrRebase"}

\* FETCH_HEAD at the start: absent, without a readable modification time, or
\* modified at one of the clock's instants, the future included
Markers ==
    {[kind |-> "absent", mtime |-> 0], [kind |-> "nomtime", mtime |-> 0]}
    \cup {[kind |-> "mtime", mtime |-> k * HalfTick] : k \in 0..3}

Repo(head, up, upTip, marker, state, statuses, stashes) ==
    [head |-> head, up |-> up, upTip |-> upTip, remoteTip |-> 2,
     marker |-> marker, state |-> state, statuses |-> statuses,
     stashes |-> stashes]

InitRun(n) ==
    /\ now = fifteen_minutes
    /\ pc = [p \in Procs |-> "idle"]
    /\ loc = [p \in Procs |-> InitLoc]
    /\ stdout = [p \in Procs |-> <<>>]
    /\ fetchLog = <<>>
    /\ budget = n

\* One invocation against every head, upstream configuration and marker
Init ==
    /\ repo \in {Repo(h, u, 1, m, "Clean", <<{"WT_NEW"}>>, 0) :
                    h \in {HBranch(T_main, 3), HBranch(T_cafe, 3), HDetached(3),
                           HError},
                    u \in Upstreams, m \in Markers}
    /\ InitRun(1)

Spec == Init /\ [][Next]_vars

\* Several invocations, one after the other or overlapping, on a branch with
\* an upstream
InitThrottle ==
    /\ repo \in {Repo(HBranch(T_main, 3), u, 1, m, "Clean", <<>>, 0) :
                    u \in {UpOk},
                    m \in {k \in Markers : k.kind = "absent" \/ k.mtime = HalfTick}}
    /\ InitRun(NumProcs)

SpecThrottle == InitThrottle /\ [][Next]_vars

Heads ==
    {HBranch(n, 3) : n \in {T_main, T_featx, T_cafe}}
    \cup {HDetached(c) : c \in Commits}
    \cup {HUnborn(f) : f \in UnbornFiles}
    \cup {HError}

AbsentMarker == [kind |-> "absent", mtime |-> 0]

\* One invocation against every head in every repository state, and against a
\* branch with every upstream configuration and every pair of tips
InitHead ==
    /\ repo \in {Repo(h, UpOk, 1, AbsentMarker, st, <<>>, 0) :
                    h \in Heads, st \in RepositoryStates}
               \cup {Repo(HBranch(T_main, c), u, t, AbsentMarker, "Clean", <<>>, 0) :
                       c \in Commits, u \in Upstreams,
                       t \in Commits \cup {MissingOid}}
    /\ InitRun(1)

SpecHead == InitHead /\ [][Next]_vars

\* The sequences over S of length n at most
SeqsUpTo(S, n) == UNION {[1..k -> S] : k \in 0..n}

\* Entries of a status report: every flag alone, and paths with a change on
\* both sides
EntryKinds ==
    {{f} : f \in StatusFlags}
    \cup {{"INDEX_MODIFIED", "WT_MODIFIED"}, {"INDEX_NEW", "WT_DELETED"},
          {"INDEX_RENAMED", "WT_RENAMED", "WT_MODIFIED"},
          {"INDEX_DELETED", "WT_NEW"}}

\* One invocation against every status report of MaxEntries entries at most
InitStatus ==
    /\ repo \in {Repo(HBranch(T_main, 3), UpOk, 1, AbsentMarker, "Clean", st, 0) :
                    st \in SeqsUpTo(EntryKinds, MaxEntries)}
    /\ InitRun(1)

SpecStatus == InitStatus /\ [][Next]_vars

\* A status report of eleven untracked paths
ManyUntracked == [i \in 1..11 |-> {"WT_NEW"}]

CountedKinds ==
    {{"WT_NEW"}, {"WT_MODIFIED"}, {"INDEX_NEW"}, {"CONFLICTED"},
     {"INDEX_MODIFIED", "WT_MODIFIED"}}

\* One invocation against every pair of tips, with and without an upstream,
\* and against every combination of counts and stashes
InitLine ==
    /\ repo \in {Repo(HBranch(T_main, c), u, t, AbsentMarker, "Clean", st, n) :
                    c \in Commits, t \in Commits, u \in {UpOk, UpNone},
                    st \in {<<>>, <<{"WT_NEW"}>>}, n \in {0, 1}}
               \cup {Repo(HBranch(T_main, 3), UpOk, 1, AbsentMarker, "Rebase", st, n) :
                       st \in SeqsUpTo(CountedKinds, MaxEntries) \cup {ManyUntracked},
                       n \in 0..MaxStash}
    /\ InitRun(1)

SpecLine == InitLine /\ [][Next]_vars

---------------------------------------------------------------------------
(* The fetch throttle                                                      *)

\* Invocation p called remote.fetch
Attempted(p) == loc[p].fetch_step \in {"calling", "ok", "failed"}

\* Invocation p is past try_fetch_current_branch's checks and still running
Checked(p) == pc[p] \in {"fetch", "statuses", "report", "written"}

HeadIsBranch(r) == RepoHead(r).ok /\ is_branch(RepoHead(r).v)

\* The marker was absent, or at least fifteen minutes old, when it was looked at
MarkerStale(marker, t) ==
    \/ marker.kind = "absent"
    \/ marker.kind = "mtime" /\ t - marker.mtime >= fifteen_minutes

\* The branch names a remote, the remote is defined, and the branch has an
\* upstream ref
UpstreamConfigured(r) ==
    branch_upstream_remote(r).ok /\ find_remote_ok(r) /\ branch_upstream_name(r).ok

\* The names the checks pass on as text are valid UTF-8
NamesAreText(r) ==
    /\ RefName(r.head).ok
    /\ r.up.remote.ok => IsUtf8(r.up.remote.v)
    /\ r.up.name.ok => IsUtf8(r.up.name.v)

\* C1, as stated: remote.fetch is called if and only if HEAD is a branch, the
\* marker is absent or at least 15 minutes old, and the upstream is configured
C1_AsStated ==
    \A p \in Procs :
        Checked(p) =>
            (Attempted(p) <=>
                /\ HeadIsBranch(repo)
                /\ MarkerStale(loc[p].fetch_head, loc[p].checked_at)
                /\ UpstreamConfigured(repo))

\* C1, amended: remote.fetch is called if and only if HEAD is a branch, the
\* marker is absent or at least 15 minutes old (exactly 15 minutes included),
\* the upstream is configured, and the names of the branch, of its remote and
\* of its upstream ref are valid UTF-8
C1_FetchIffPreconditions ==
    \A p \in Procs :
        Checked(p) =>
            (Attempted(p) <=>
                /\ HeadIsBranch(repo)
                /\ MarkerStale(loc[p].fetch_head, loc[p].checked_at)
                /\ UpstreamConfigured(repo)
                /\ NamesAreText(repo))

\* A fetch was called on a marker exactly fifteen minutes old
C1_Witness ==
    \E p \in Procs :
        /\ Checked(p) /\ Attempted(p)
        /\ loc[p].fetch_head.kind = "mtime"
        /\ loc[p].checked_at - loc[p].fetch_head.mtime = fifteen_minutes

\* C2, as stated: any two calls of remote.fetch on the repository are at least
\* 15 minutes apart
C2_AsStated ==
    \A i, j \in DOMAIN fetchLog :
        (i < j /\ fetchLog[i].ev = "call" /\ fetchLog[j].ev = "call")
            => fetchLog[j].at - fetchLog[i].at >= fifteen_minutes

\* C2, amended: a call of remote.fetch that follows the successful return of an
\* earlier fetch comes at least 15 minutes after that return
C2_FetchAfterSuccessWaits ==
    \A i, j \in DOMAIN fetchLog :
        (i < j /\ fetchLog[i].ev = "ok" /\ fetchLog[j].ev = "call")
            => fetchLog[j].at - fetchLog[i].at >= fifteen_minutes

\* A fetch succeeded and, later, another invocation called remote.fetch
C2_Witness ==
    \E i, j \in DOMAIN fetchLog :
        i < j /\ fetchLog[i].ev = "ok" /\ fetchLog[j].ev = "call"

---------------------------------------------------------------------------
(* What main writes                                                        *)

Ended(p) == pc[p] \in {"written", "done"}

\* get_head_name yields no name
HeadUnresolved(r) == ~get_head_name(r).ok

\* C3, as stated: a run writes nothing when the repository cannot be opened,
\* the status report cannot be read or HEAD cannot be resolved at all, and
\* exactly one line in every other case
C3_AsStated ==
    \A p \in Procs :
        Ended(p) =>
            Len(stdout[p]) =
                (IF \/ loc[p].opened = "err"
                    \/ loc[p].statuses_read = "err"
                    \/ HeadUnresolved(repo)
                 THEN 0 ELSE 1)

\* C3, amended: a run writes nothing when the repository cannot be opened or
\* the status report cannot be read, and exactly one line in every other case,
\* a HEAD that cannot be resolved included; nothing is written before the end
C3_SilentOnlyWithoutRepoOrStatus ==
    \A p \in Procs :
        /\ Ended(p) =>
              Len(stdout[p]) =
                  (IF loc[p].opened = "err" \/ loc[p].statuses_read = "err"
                   THEN 0 ELSE 1)
        /\ ~Ended(p) => stdout[p] = <<>>

\* A run ended with one line written although HEAD could not be resolved
C3_Witness ==
    \E p \in Procs :
        Ended(p) /\ HeadUnresolved(repo) /\ Len(stdout[p]) = 1

---------------------------------------------------------------------------
(* The order of main's steps                                               *)

FetchStepOver(p) == loc[p].fetch_step \in {"skipped", "failed", "ok"}

\* C10: once the repository is open, the status report is read only after the
\* fetch step is over; a run that opened the repository reads the status report
\* however the fetch went; and the divergence a run writes is the one of the
\* refs its fetch left: after a fetch that succeeded, the distance to the tip
\* the remote had
C10_FetchFirstAndNeverFatal ==
    \A p \in Procs :
        /\ loc[p].statuses_read # "unset" => FetchStepOver(p)
        /\ pc[p] \in {"report", "written"} => FetchStepOver(p)
        /\ (Ended(p) /\ loc[p].opened = "ok") => loc[p].statuses_read # "unset"
        /\ (pc[p] = "written" /\ loc[p].fetch_step = "ok" /\ repo.up.ref = "direct")
              => LET d == graph_ahead_behind(repo.head.oid, repo.remoteTip).v
                 IN  loc[p].info.ahead = d[1] /\ loc[p].info.behind = d[2]

\* A run wrote, after its fetch succeeded, a divergence that the refs had not
\* before the fetch
C10_Witness ==
    \E p \in Procs :
        /\ pc[p] = "written" /\ loc[p].fetch_step = "ok"
        /\ loc[p].info.behind = 1

---------------------------------------------------------------------------
(* The head: its divergence, its name, its label                           *)

Wrote(p) == pc[p] = "written"

\* The line invocation p wrote, without its styling codes
Plain(line) == SelectSeq(line, LAMBDA c : c \notin StyleCodes)

IsPrefix(s, t) == Len(s) <= Len(t) /\ SubSeq(t, 1, Len(s)) = s

\* C5: is_local_only is reported exactly for a branch whose upstream lookup
\* fails, with ahead = behind = 0; a detached HEAD, a HEAD that does not
\* resolve (an unborn branch included) and a branch whose upstream tip is not
\* a commit id give (false, 0, 0); a branch at its upstream's tip gives
\* ahead = behind = 0
C5_HeadInfo ==
    \A p \in Procs :
        Wrote(p) =>
            LET i == loc[p].info
                zero == i.ahead = 0 /\ i.behind = 0
            IN  /\ i.is_local_only <=>
                      (repo.head.kind = "branch" /\ ~BranchUpstream(repo).ok)
                /\ i.is_local_only => zero
                /\ repo.head.kind \in {"detached", "unborn", "error"}
                      => ~i.is_local_only /\ zero
                /\ (repo.head.kind = "branch" /\ BranchUpstream(repo).ok
                        /\ ~BranchUpstream(repo).v.target.ok)
                      => ~i.is_local_only /\ zero
                /\ (repo.head.kind = "branch" /\ BranchUpstream(repo).ok
                        /\ BranchUpstream(repo).v.target = Some(repo.head.oid))
                      => zero

\* A branch was reported local-only
C5_Witness ==
    \E p \in Procs :
        Wrote(p) /\ repo.head.kind = "branch" /\ loc[p].info.is_local_only

\* The name C7 states for the head of repository r
C7_NameAsStated(r) ==
    CASE r.head.kind = "branch" -> r.head.short
      [] r.head.kind = "detached" -> <<":">> \o SubSeq(OidHex(r.head.oid), 1, 7)
      [] r.head.kind = "unborn" /\ ReadHeadFile(r).ok ->
             SplitLast(FirstLine(ReadHeadFile(r).v).v, "/")
      [] OTHER -> T_unknown

\* C7, as stated: the head name is the branch's short name, ':' and the first
\* 7 hex digits of a detached HEAD's commit, the last '/' segment of the HEAD
\* file's first line for an unborn branch, and '<unknown>' otherwise; a line is
\* written in each case
C7_AsStated ==
    \A p \in Procs :
        Wrote(p) =>
            loc[p].head_name = C7_NameAsStated(repo) /\ Len(stdout[p]) = 1

\* The name of the head of repository r, amended
C7_NameAmended(r) ==
    CASE r.head.kind = "branch" /\ IsUtf8(r.head.short) -> r.head.short
      [] r.head.kind = "detached" -> <<":">> \o SubSeq(OidHex(r.head.oid), 1, 7)
      [] r.head.kind = "unborn" /\ ReadHeadFile(r).ok ->
             SplitLast(Trim(FirstLine(ReadHeadFile(r).v).v), "/")
      [] OTHER -> T_unknown

\* C7, amended: the head name is the branch's short name when that is valid
\* UTF-8; ':' and the first 7 hex digits of a detached HEAD's commit; for an
\* unborn branch whose HEAD file reads as UTF-8 text, the last '/' segment of
\* the file's first line with the blanks around it trimmed; and '<unknown>'
\* otherwise; a line is written in each case
C7_HeadName ==
    \A p \in Procs :
        Wrote(p) =>
            loc[p].head_name = C7_NameAmended(repo) /\ Len(stdout[p]) = 1

\* The fallback named an unborn branch from a HEAD file with a blank before
\* the line's end
C7_Witness ==
    \E p \in Procs :
        /\ Wrote(p) /\ repo.head.kind = "unborn"
        /\ repo.head.file = Some(T_ref \o T_heads \o T_main \o <<" ", "\n">>)
        /\ loc[p].head_name = T_main

\* The suffix C8 states for a repository state
C8_Suffix(state) ==
    CASE state = "Merge" \/ state = "RebaseMerge" ->
             <<"|", "M", "E", "R", "G", "I", "N", "G">>
      [] state = "Rebase" \/ state = "RebaseInteractive" ->
             <<"|", "R", "E", "B", "A", "S", "I", "N", "G">>
      [] OTHER -> <<>>

\* C8: the label written after ' on ' is the head name followed by |MERGING in
\* the states Merge and RebaseMerge, by |REBASING in the states Rebase and
\* RebaseInteractive, and by nothing in every other state, whatever the name
C8_LabelSuffix ==
    \A p \in Procs :
        Wrote(p) =>
            /\ loc[p].head_label = loc[p].head_name \o C8_Suffix(repo.state)
            /\ IsPrefix(<<" ", "o", "n", " ">> \o loc[p].head_label,
                        Plain(stdout[p][1]))

\* The placeholder name got the suffix of a merge left by a rebase
C8_Witness ==
    \E p \in Procs :
        /\ Wrote(p) /\ repo.state = "RebaseMerge"
        /\ loc[p].head_name = T_unknown
        /\ loc[p].head_label = T_unknown \o <<"|">> \o T_MERGING

---------------------------------------------------------------------------
(* The counts                                                              *)

\* How many entries of a status report have a flag of the mask
C4_Count(statuses, mask) ==
    Cardinality({i \in DOMAIN statuses : statuses[i] \cap mask # {}})

\* C4: each of the four counts is the number of reported entries with a flag of
\* its category: untracked WT_NEW; changed WT_DELETED, WT_MODIFIED, WT_RENAMED,
\* WT_TYPECHANGE; staged INDEX_NEW, INDEX_MODIFIED, INDEX_RENAMED,
\* INDEX_TYPECHANGE; conflicted CONFLICTED.  An entry counts in every category
\* it has a flag of, and in none when it has no such flag
C4_Counts ==
    \A p \in Procs :
        Wrote(p) =>
            LET st == repo.statuses
                t == loc[p].totals
            IN  /\ t.untracked = C4_Count(st, {"WT_NEW"})
                /\ t.changed = C4_Count(st, {"WT_DELETED", "WT_MODIFIED",
                                             "WT_RENAMED", "WT_TYPECHANGE"})
                /\ t.staged = C4_Count(st, {"INDEX_NEW", "INDEX_MODIFIED",
                                            "INDEX_RENAMED", "INDEX_TYPECHANGE"})
                /\ t.conflicted = C4_Count(st, {"CONFLICTED"})

\* One path counted as staged and as changed, beside a path deleted in the
\* index that no count has
C4_Witness ==
    \E p \in Procs :
        /\ Wrote(p)
        /\ repo.statuses = <<{"INDEX_MODIFIED", "WT_MODIFIED"}, {"INDEX_DELETED"}>>
        /\ loc[p].totals =
              [untracked |-> 0, changed |-> 1, staged |-> 1, conflicted |-> 0]

---------------------------------------------------------------------------
(* The line                                                                *)

\* The value of a decimal numeral
RECURSIVE NumeralValue(_)
NumeralValue(d) ==
    IF d = <<>> THEN 0
    ELSE 10 * NumeralValue(SubSeq(d, 1, Len(d) - 1))
         + (CHOOSE k \in 0..9 : Digits[k + 1] = d[Len(d)])

\* <n>: the decimal numeral of n, without a leading zero
C6_Numeral(n) ==
    CHOOSE d \in SeqsUpTo({Digits[k] : k \in 1..10}, 2) :
        /\ d # <<>> /\ NumeralValue(d) = n
        /\ (Len(d) > 1 => d[1] # "0")

\* The line C6 states
C6_Line(label, local, ahead, behind, untracked, changed, staged, conflicted, stashes) ==
    <<" ", "o", "n", " ">> \o label
    \o (IF local THEN <<" ", "U+2B28">>
        ELSE IF ahead > 0 \/ behind > 0
        THEN <<" ">>
             \o (IF ahead > 0 THEN <<"U+2191">> \o C6_Numeral(ahead) ELSE <<>>)
             \o (IF behind > 0 THEN <<"U+2193">> \o C6_Numeral(behind) ELSE <<>>)
        ELSE <<>>)
    \o (IF untracked > 0 \/ changed > 0 \/ staged > 0 \/ conflicted > 0
        THEN <<" ", "(">>
             \o (IF untracked > 0 THEN <<"+">> \o C6_Numeral(untracked) ELSE <<>>)
             \o (IF changed > 0 THEN <<"U+0394">> \o C6_Numeral(changed) ELSE <<>>)
             \o (IF staged > 0 THEN <<"U+25CF">> \o C6_Numeral(staged) ELSE <<>>)
             \o (IF conflicted > 0 THEN <<"U+2716">> \o C6_Numeral(conflicted) ELSE <<>>)
             \o <<")">>
        ELSE <<>>)
    \o (IF stashes > 0 THEN <<" ", "U+2691">> \o C6_Numeral(stashes) ELSE <<>>)

Glyphs ==
    {GlyphLocalOnly, GlyphAhead, GlyphBehind, "+", GlyphChanged, GlyphStaged,
     GlyphConflicted, GlyphStash}

Chars(s) == {s[i] : i \in DOMAIN s}

\* C6: without its styling codes the line written is ' on <label>', then the
\* divergence (' U+2B28' on a local-only branch, else a space and the arrows
\* that are not zero, ahead before behind), then the counts that are not zero,
\* in brackets and in the order untracked, changed, staged, conflicted, then
\* the stashes when there are some; the local-only glyph and an arrow never
\* both appear, and no glyph is followed by a zero
C6_LineFormat ==
    \A p \in Procs :
        Wrote(p) =>
            LET line == Plain(stdout[p][1])
                i == loc[p].info
                t == loc[p].totals
                tail == SubSeq(line, 5 + Len(loc[p].head_label), Len(line))
            IN  /\ line = C6_Line(loc[p].head_label, i.is_local_only, i.ahead,
                                  i.behind, t.untracked, t.changed, t.staged,
                                  t.conflicted, loc[p].total_stashed)
                /\ ~(GlyphLocalOnly \in Chars(tail)
                     /\ (GlyphAhead \in Chars(tail) \/ GlyphBehind \in Chars(tail)))
                /\ \A k \in 1..(Len(tail) - 1) :
                       tail[k] \in Glyphs => tail[k + 1] # "0"

\* A line with both arrows, a count and the stashes
C6_Witness ==
    \E p \in Procs :
        /\ Wrote(p)
        /\ Plain(stdout[p][1]) =
              <<" ", "o", "n", " ", "m", "a", "i", "n", " ", "U+2191", "2",
                "U+2193", "1", " ", "(", "+", "1", ")", " ", "U+2691", "1">>

---------------------------------------------------------------------------
(* The stashes                                                             *)

\* The line of repository r up to the stashes
C9_LineBeforeStashes(r) ==
    git_status(head_label(head_name(r), r.state), get_head_info(r),
               Totals(r.statuses), 0)

====
